---- MODULE Spec2Model ----
(***************************************************************************)
(* A model of cpparse (src/cpparse.cxx): the Registry built by add_flag /  *)
(* add_agg_flag / add_option, the ArgReader state machine (next_flag and   *)
(* next_argument) and the dispatch loop of Parser::parse.                  *)
(*                                                                         *)
(* A std::string is a sequence of one-character strings.  An Option* is    *)
(* the index of the option in the owning vector `options`.  A std::string  *)
(* iterator into `current` is its offset from current.begin(), so that     *)
(* current.begin() is 0 and current.end() is Len(current).  exit(1) is the *)
(* terminal control state "error" together with the kind of the error; an  *)
(* exception thrown by a declaration is recorded in decl_error.  The field *)
(* writes of an option counts the assignments to its value.                *)
(***************************************************************************)
EXTENDS Integers, Sequences, FiniteSets, TLC

VARIABLES
  options,          \* Parser::options, the owning vector of options
  short_options,    \* Parser::short_options, char -> Option*
  long_options,     \* Parser::long_options, string -> Option*
  arguments,        \* Parser::arguments, the positionals in declaration order
  decl_names,       \* the name list of the last declaration
  decl_error,       \* the exception the last declaration threw, or "none"
  argv,             \* the argument vector handed to parse (argv[1] is C's argv[0])
  argc,             \* the argument count handed to parse
  reader,           \* the ArgReader of the running parse
  args,             \* Parser::parse's cursor into arguments (number already taken)
  flag,             \* Parser::parse's token buffer
  type,             \* the ot value the last next_flag call returned
  pc,               \* control state of the program
  err,              \* kind of the parse error that ended the parse, or "none"
  raised_by,        \* who raised err: [list, index] of the option, or the parser
  calls             \* per option, how often Parser::parse invoked its parse,
                    \* and how often the body of its dispatch loop was entered

vars == <<options, short_options, long_options, arguments, decl_names,
          decl_error, argv, argc, reader, args, flag, type, pc, err, raised_by,
          calls>>

(***************************************************************************)
(* Bounds of the model.                                                    *)
(***************************************************************************)
MaxArgs == 3
MaxPos == 2
MaxDecls == 2
MaxNames == 2
MaxInt == 12
MaxFlags == 2
MaxRepeat == 3
MaxBeyond == 2

(***************************************************************************)
(* Characters.                                                             *)
(***************************************************************************)
Digits == {"0", "1", "2", "3", "4", "5", "6", "7", "8", "9"}

Lower == {"a", "b", "c", "d", "e", "f", "g", "h", "i", "j", "k", "l", "m",
          "n", "o", "p", "q", "r", "s", "t", "u", "v", "w", "x", "y", "z"}

Upper == {"A", "B", "C", "D", "E", "F", "G", "H", "I", "J", "K", "L", "M",
          "N", "O", "P", "Q", "R", "S", "T", "U", "V", "W", "X", "Y", "Z"}

isalnum(c) == c \in Digits \cup Lower \cup Upper

\* The vertical tab, 0x0b: the string holds the character itself.
VT == ""

\* std::isspace in the "C" locale: space, \t, \n, \v, \f and \r.
isspace(c) == c \in {" ", "\t", "\n", VT, "\f", "\r"}

DigitValue(c) ==
  CASE c = "0" -> 0 [] c = "1" -> 1 [] c = "2" -> 2 [] c = "3" -> 3
    [] c = "4" -> 4 [] c = "5" -> 5 [] c = "6" -> 6 [] c = "7" -> 7
    [] c = "8" -> 8 [] c = "9" -> 9

Suffix(s, from) == SubSeq(s, from, Len(s))

\* Op applied to the value of v, with v evaluated once.
Bind(v, Op(_)) == CHOOSE out \in {Op(x) : x \in {v}} : TRUE

(***************************************************************************)
(* String interpretation: read<T>.                                         *)
(***************************************************************************)
\* The bounds of a 32-bit int.
IntMax == (2^30 - 1) * 2 + 1
IntMin == -IntMax - 1

\* The value of an int that was never written, when it is read: it stands for
\* every int of IntMin..IntMax, and each read may give another one.  The
\* program stores such a value and never computes with it, so a state that
\* holds Indeterminate stands for the states with each int in its place.
Indeterminate == "indeterminate"

\* Offset of the first character at or after offset i that is not white space.
RECURSIVE SkipSpace(_, _)
SkipSpace(s, i) ==
  IF i < Len(s) /\ isspace(s[i + 1]) THEN SkipSpace(s, i + 1) ELSE i

\* Offset of the first character at or after offset i that is not a digit.
RECURSIVE SkipDigits(_, _)
SkipDigits(s, i) ==
  IF i < Len(s) /\ s[i + 1] \in Digits THEN SkipDigits(s, i + 1) ELSE i

\* The digits of s at offsets i .. j-1 accumulated as the negative of the number
\* they write, which keeps the accumulator inside the int range up to the
\* magnitude of IntMin; overflow is TRUE once the number has left that range.
RECURSIVE DigitsValue(_, _, _)
DigitsValue(s, i, j) ==
  IF j <= i THEN [n |-> 0, overflow |-> FALSE]
  ELSE Bind(DigitsValue(s, i, j - 1),
            LAMBDA v :
              IF v.overflow THEN v
              ELSE IF \/ v.n < IntMin \div 10 + 1
                      \/ /\ v.n = IntMin \div 10 + 1
                         /\ DigitValue(s[j]) > 10 - (IntMin % 10)
                THEN [n |-> v.n, overflow |-> TRUE]
              ELSE [n |-> v.n * 10 - DigitValue(s[j]), overflow |-> FALSE])

\* The stream after iss >> result found a character to start from: d is the
\* offset of the first digit, e the offset after the last one and v the digits'
\* value.  No digit: failbit and result = 0.  Out of range: failbit and the
\* nearest bound.  eofbit is set when the extraction looked past the last
\* character.  pos is where the get pointer ends.
ExtractResult(s, d, e, negative, v) ==
  Bind(v.overflow \/ (~negative /\ v.n = IntMin),
       LAMBDA range :
         [eof |-> e = Len(s),
          fail |-> e = d \/ range,
          pos |-> e,
          result |-> IF e = d THEN 0
                     ELSE IF range THEN (IF negative THEN IntMin ELSE IntMax)
                     ELSE IF negative THEN v.n ELSE -v.n])

ExtractDigits(s, d, negative) ==
  Bind(SkipDigits(s, d),
       LAMBDA e : ExtractResult(s, d, e, negative, DigitsValue(s, d, e)))

\* iss >> result for an int.  The sentry skips white space; when it meets the
\* end of the input it sets eofbit and failbit and the extraction does not run,
\* so that result is never written.  Otherwise an optional sign and the digits
\* are taken.
ExtractInt(s) ==
  Bind(SkipSpace(s, 0),
       LAMBDA b : IF b = Len(s)
                    THEN [eof |-> TRUE, fail |-> TRUE, pos |-> b,
                          result |-> Indeterminate]
                  ELSE IF s[b + 1] \in {"-", "+"}
                    THEN ExtractDigits(s, b + 1, s[b + 1] = "-")
                    ELSE ExtractDigits(s, b, FALSE))

\* read<int> returning the result whatever follows the number.
ReadResult_anyRest(input, x) == [ok |-> TRUE, value |-> x.result]

\* read<int>: the result is returned when the stream is at eof or tellg() is
\* the size of the input (tellg() is -1 on a failed stream); it throws
\* std::invalid_argument otherwise.
ReadResult(input, x) ==
  IF x.eof \/ (IF x.fail THEN -1 ELSE x.pos) = Len(input)
    THEN [ok |-> TRUE, value |-> x.result]
    ELSE [ok |-> FALSE, value |-> 0]

read_int(input) == Bind(ExtractInt(input), LAMBDA x : ReadResult(input, x))

\* read<std::string>: the input itself.
read_string(input) == [ok |-> TRUE, value |-> input]

\* The std::function converter of a SingleOption, by the type it was declared
\* with.
Convert(converter, input) ==
  IF converter = "int" THEN read_int(input) ELSE read_string(input)

\* An aggregator that keeps only its second argument.
Aggregate_second(aggregator, a, b) == b

\* The std::function aggregator of an AggFlag.
Aggregate(aggregator, a, b) ==
  IF aggregator = "add" THEN a + b ELSE b

(***************************************************************************)
(* Option names and registration.                                          *)
(***************************************************************************)
is_short_option(name) ==
  Len(name) = 2 /\ name[1] = "-" /\ isalnum(name[2])

\* is_long_option without the test of the characters after the third.
is_long_option_anyTail(name) ==
  /\ Len(name) > 2
  /\ name[1] = "-"
  /\ name[2] = "-"
  /\ isalnum(name[3])

is_long_option(name) ==
  /\ Len(name) > 2
  /\ name[1] = "-"
  /\ name[2] = "-"
  /\ isalnum(name[3])
  /\ \A k \in 4..Len(name) : isalnum(name[k]) \/ name[k] = "-"

\* parse_names: the names are sorted into short characters and long strings in
\* the order given.  ok is FALSE when std::invalid_argument is thrown.
RECURSIVE parse_names_from(_, _, _, _)
parse_names_from(names, k, short_names, long_names) ==
  IF k > Len(names)
    THEN [ok |-> TRUE, short_names |-> short_names, long_names |-> long_names]
  ELSE IF is_short_option(names[k])
    THEN parse_names_from(names, k + 1, Append(short_names, names[k][2]), long_names)
  ELSE IF is_long_option(names[k])
    THEN parse_names_from(names, k + 1, short_names, Append(long_names, Suffix(names[k], 3)))
  ELSE [ok |-> FALSE, short_names |-> short_names, long_names |-> long_names]

parse_names(names) ==
  IF Len(names) = 0
    THEN [ok |-> FALSE, short_names |-> <<>>, long_names |-> <<>>]
    ELSE parse_names_from(names, 1, <<>>, <<>>)

\* RegisterNames without the lookup: a name already in the map is bound again.
RECURSIVE RegisterNames_rebinds(_, _, _, _)
RegisterNames_rebinds(map, names, k, option) ==
  IF k > Len(names) THEN [map |-> map, thrown |-> FALSE]
  ELSE RegisterNames_rebinds((names[k] :> option) @@ map, names, k + 1, option)

\* The loops of register_option over a name list: each name is looked up in the
\* map and entered when absent; the first name found stops the loop with a throw
\* and leaves the names entered before it in the map.
RECURSIVE RegisterNames(_, _, _, _)
RegisterNames(map, names, k, option) ==
  IF k > Len(names) THEN [map |-> map, thrown |-> FALSE]
  ELSE IF names[k] \in DOMAIN map THEN [map |-> map, thrown |-> TRUE]
  ELSE RegisterNames((names[k] :> option) @@ map, names, k + 1, option)

\* register_option entering only the first long name of the option.
register_option_firstLong(reg, option, short_names, long_names) ==
  LET opts == Append(reg.options, option)
      ptr == Len(opts)
      s == RegisterNames(reg.short_options, short_names, 1, ptr)
      l == RegisterNames(reg.long_options,
                         IF long_names = <<>> THEN <<>> ELSE <<long_names[1]>>,
                         1, ptr)
  IN  IF s.thrown
        THEN [options |-> opts, short_options |-> s.map,
              long_options |-> reg.long_options, error |-> "DuplicateNameError"]
      ELSE IF l.thrown
        THEN [options |-> opts, short_options |-> s.map,
              long_options |-> l.map, error |-> "DuplicateNameError"]
      ELSE [options |-> opts, short_options |-> s.map,
            long_options |-> l.map, error |-> "none"]

\* register_option on the registry reg = [options, short_options, long_options]:
\* the option is put into the owning vector first, then the short names are
\* entered, then the long names.
register_option(reg, option, short_names, long_names) ==
  LET opts == Append(reg.options, option)
      ptr == Len(opts)
      s == RegisterNames(reg.short_options, short_names, 1, ptr)
      l == RegisterNames(reg.long_options, long_names, 1, ptr)
  IN  IF s.thrown
        THEN [options |-> opts, short_options |-> s.map,
              long_options |-> reg.long_options, error |-> "DuplicateNameError"]
      ELSE IF l.thrown
        THEN [options |-> opts, short_options |-> s.map,
              long_options |-> l.map, error |-> "DuplicateNameError"]
      ELSE [options |-> opts, short_options |-> s.map,
            long_options |-> l.map, error |-> "none"]

\* The short usage fragment built from the first long name when there is one.
FlagShortUsage_firstLong(short_names, long_names, close) ==
  <<"[", "-">>
    \o (IF long_names # <<>> THEN <<"-">> \o long_names[1] ELSE <<short_names[1]>>)
    \o close

\* The short usage fragment the Flag and AggFlag constructors build: the first
\* short name, or the first long name when there is no short name.
FlagShortUsage(short_names, long_names, close) ==
  <<"[", "-">>
    \o (IF short_names # <<>> THEN <<short_names[1]>> ELSE <<"-">> \o long_names[1])
    \o close

NewFlag(short_names, long_names, constant, def) ==
  [kind |-> "Flag", value |-> def, writes |-> 0, constant |-> constant,
   short_usage_text |-> FlagShortUsage(short_names, long_names, <<"]">>)]

NewAggFlag(short_names, long_names, constant, def, aggregator) ==
  [kind |-> "AggFlag", value |-> def, writes |-> 0, constant |-> constant,
   aggregator |-> aggregator,
   short_usage_text |->
     FlagShortUsage(short_names, long_names, <<"]", ".", ".", ".">>)]

NewSingleOption(short_names, long_names, def, converter) ==
  [kind |-> "SingleOption", value |-> def, writes |-> 0,
   converter |-> converter,
   short_names |-> short_names, long_names |-> long_names,
   meta_var_text |-> IF long_names # <<>> THEN long_names[1]
                     ELSE <<short_names[1]>>]

\* SingleOption<T>::meta_var
meta_var(option, meta_var_) == [option EXCEPT !.meta_var_text = meta_var_]

\* What add_flag, add_agg_flag and add_option share: parse_names runs first and
\* its throw leaves the registry reg alone; then the option is constructed from
\* the sorted names and registered.
Unregistered(reg) ==
  [options |-> reg.options, short_options |-> reg.short_options,
   long_options |-> reg.long_options, error |-> "InvalidNameError"]

\* Parser::add_flag
add_flag(reg, names, constant, def) ==
  Bind(parse_names(names),
       LAMBDA n : IF ~n.ok THEN Unregistered(reg)
                  ELSE register_option(reg,
                         NewFlag(n.short_names, n.long_names, constant, def),
                         n.short_names, n.long_names))

\* Parser::add_agg_flag
add_agg_flag(reg, names, constant, def, aggregator) ==
  Bind(parse_names(names),
       LAMBDA n : IF ~n.ok THEN Unregistered(reg)
                  ELSE register_option(reg,
                         NewAggFlag(n.short_names, n.long_names, constant, def,
                                    aggregator),
                         n.short_names, n.long_names))

\* Parser::add_option
add_option(reg, names, def, converter) ==
  Bind(parse_names(names),
       LAMBDA n : IF ~n.ok THEN Unregistered(reg)
                  ELSE register_option(reg,
                         NewSingleOption(n.short_names, n.long_names, def,
                                         converter),
                         n.short_names, n.long_names))

(***************************************************************************)
(* ArgReader.  A reader is [itr, end, process_options, last_flag, current, *)
(* location]; itr and end are indices of C's argv (argv + 1 is 1).  The    *)
(* field fault is not a member: it is set when *itr is read at an address  *)
(* that holds no string, which ends the process.                           *)
(***************************************************************************)
\* *itr: the raw argument at C index i.
Deref(av, i) == av[i + 1]

\* ArgReader::ArgReader
NewArgReader(ac) ==
  [itr |-> 1, end |-> ac, process_options |-> TRUE, last_flag |-> <<>>,
   current |-> <<>>, location |-> 0, fault |-> FALSE]

\* current.assign(*itr++); location = current.begin(); over the memory av, the
\* argument vector and the words that follow it.
Fetch(r, av) ==
  IF r.itr + 1 \in DOMAIN av
    THEN [r EXCEPT !.current = Deref(av, r.itr), !.itr = r.itr + 1,
                   !.location = 0]
    ELSE [r EXCEPT !.fault = TRUE]

\* Classify with the marker leaving option syntax honored.
Classify_keepsOptions(r, buffer) ==
  IF r.process_options /\ Len(r.current) = 2 /\ r.current[1] = "-"
       /\ r.current[2] = "-"
    THEN [reader |-> [r EXCEPT !.location = Len(r.current)],
          buffer |-> buffer, type |-> "marker"]
  ELSE IF r.process_options /\ Len(r.current) >= 2 /\ r.current[1] = "-"
            /\ r.current[2] # "-"
    THEN LET c == r.current[r.location + 2]
         IN  [reader |-> [r EXCEPT !.location = r.location + 2,
                                   !.last_flag = <<"-", c>>],
              buffer |-> <<c>>, type |-> "short_opt"]
  ELSE IF r.process_options /\ Len(r.current) > 2 /\ r.current[1] = "-"
            /\ r.current[2] = "-"
    THEN LET name == Suffix(r.current, r.location + 3)
         IN  [reader |-> [r EXCEPT !.last_flag = <<"-", "-">> \o name,
                                   !.location = Len(r.current)],
              buffer |-> name, type |-> "long_opt"]
  ELSE [reader |-> [r EXCEPT !.last_flag = <<>>],
        buffer |-> r.current, type |-> "argument"]

\* Classify with the marker recognised whether or not options are processed.
Classify_markerAgain(r, buffer) ==
  IF Len(r.current) = 2 /\ r.current[1] = "-" /\ r.current[2] = "-"
    THEN [reader |-> [r EXCEPT !.process_options = FALSE,
                               !.location = Len(r.current)],
          buffer |-> buffer, type |-> "marker"]
  ELSE IF r.process_options /\ Len(r.current) >= 2 /\ r.current[1] = "-"
            /\ r.current[2] # "-"
    THEN LET c == r.current[r.location + 2]
         IN  [reader |-> [r EXCEPT !.location = r.location + 2,
                                   !.last_flag = <<"-", c>>],
              buffer |-> <<c>>, type |-> "short_opt"]
  ELSE IF r.process_options /\ Len(r.current) > 2 /\ r.current[1] = "-"
            /\ r.current[2] = "-"
    THEN LET name == Suffix(r.current, r.location + 3)
         IN  [reader |-> [r EXCEPT !.last_flag = <<"-", "-">> \o name,
                                   !.location = Len(r.current)],
              buffer |-> name, type |-> "long_opt"]
  ELSE [reader |-> [r EXCEPT !.last_flag = <<>>],
        buffer |-> r.current, type |-> "argument"]

\* Classify with a raw argument made of one prefix character taken for the
\* marker too.
Classify_loneMarker(r, buffer) ==
  IF r.process_options /\ Len(r.current) \in {1, 2}
       /\ \A k \in 1..Len(r.current) : r.current[k] = "-"
    THEN [reader |-> [r EXCEPT !.process_options = FALSE,
                               !.location = Len(r.current)],
          buffer |-> buffer, type |-> "marker"]
  ELSE IF r.process_options /\ Len(r.current) >= 2 /\ r.current[1] = "-"
            /\ r.current[2] # "-"
    THEN LET c == r.current[r.location + 2]
         IN  [reader |-> [r EXCEPT !.location = r.location + 2,
                                   !.last_flag = <<"-", c>>],
              buffer |-> <<c>>, type |-> "short_opt"]
  ELSE IF r.process_options /\ Len(r.current) > 2 /\ r.current[1] = "-"
            /\ r.current[2] = "-"
    THEN LET name == Suffix(r.current, r.location + 3)
         IN  [reader |-> [r EXCEPT !.last_flag = <<"-", "-">> \o name,
                                   !.location = Len(r.current)],
              buffer |-> name, type |-> "long_opt"]
  ELSE [reader |-> [r EXCEPT !.last_flag = <<>>],
        buffer |-> r.current, type |-> "argument"]

\* The part of next_flag after a raw argument is in `current`: the marker, a
\* short option, a long option or an argument.
Classify(r, buffer) ==
  IF r.fault
    THEN [reader |-> r, buffer |-> buffer, type |-> "none"]
  ELSE IF r.process_options /\ Len(r.current) = 2 /\ r.current[1] = "-"
       /\ r.current[2] = "-"
    THEN [reader |-> [r EXCEPT !.process_options = FALSE,
                               !.location = Len(r.current)],
          buffer |-> buffer, type |-> "marker"]
  ELSE IF r.process_options /\ Len(r.current) >= 2 /\ r.current[1] = "-"
            /\ r.current[2] # "-"
    THEN LET c == r.current[r.location + 2]
         IN  [reader |-> [r EXCEPT !.location = r.location + 2,
                                   !.last_flag = <<"-", c>>],
              buffer |-> <<c>>, type |-> "short_opt"]
  ELSE IF r.process_options /\ Len(r.current) > 2 /\ r.current[1] = "-"
            /\ r.current[2] = "-"
    THEN LET name == Suffix(r.current, r.location + 3)
         IN  [reader |-> [r EXCEPT !.last_flag = <<"-", "-">> \o name,
                                   !.location = Len(r.current)],
              buffer |-> name, type |-> "long_opt"]
  ELSE [reader |-> [r EXCEPT !.last_flag = <<>>],
        buffer |-> r.current, type |-> "argument"]

\* next_flag reading a cluster's character again rather than its next one.
next_flag_repeatsFlag(r, buffer, av) ==
  IF r.location # 0 /\ r.location # Len(r.current)
    THEN LET c == r.current[r.location]
         IN  [reader |-> [r EXCEPT !.location = r.location + 1,
                                   !.last_flag = <<"-", c>>],
              buffer |-> <<c>>, type |-> "short_opt"]
  ELSE IF r.location = Len(r.current) /\ r.itr = r.end
    THEN [reader |-> r, buffer |-> buffer, type |-> "end"]
  ELSE IF r.location = Len(r.current)
    THEN Classify(Fetch(r, av), buffer)
  ELSE Classify(r, buffer)

\* next_flag handing out the next character of a cluster without moving the
\* cursor past it.
next_flag_staysInCluster(r, buffer, av) ==
  IF r.location # 0 /\ r.location # Len(r.current)
    THEN LET c == r.current[r.location + 1]
         IN  [reader |-> [r EXCEPT !.last_flag = <<"-", c>>],
              buffer |-> <<c>>, type |-> "short_opt"]
  ELSE IF r.location = Len(r.current) /\ r.itr = r.end
    THEN [reader |-> r, buffer |-> buffer, type |-> "end"]
  ELSE IF r.location = Len(r.current)
    THEN Classify(Fetch(r, av), buffer)
  ELSE Classify(r, buffer)

\* ArgReader::next_flag on the reader r with the caller's buffer, over the
\* argument vector av: the reader, the buffer and the ot value after the call.
next_flag(r, buffer, av) ==
  IF r.location # 0 /\ r.location # Len(r.current)
    THEN LET c == r.current[r.location + 1]
         IN  [reader |-> [r EXCEPT !.location = r.location + 1,
                                   !.last_flag = <<"-", c>>],
              buffer |-> <<c>>, type |-> "short_opt"]
  ELSE IF r.location = Len(r.current) /\ r.itr = r.end
    THEN [reader |-> r, buffer |-> buffer, type |-> "end"]
  ELSE IF r.location = Len(r.current)
    THEN Classify(Fetch(r, av), buffer)
  ELSE Classify(r, buffer)

\* TakeCurrent without the test for an option-shaped raw argument.
TakeCurrent_any(r, buffer) ==
  [reader |-> [r EXCEPT !.location = Len(r.current)],
   buffer |-> r.current, ok |-> TRUE]

\* The part of next_argument after a raw argument is in `current`.
TakeCurrent(r, buffer) ==
  IF r.fault
    THEN [reader |-> r, buffer |-> buffer, ok |-> FALSE]
  ELSE IF r.process_options /\ Len(r.current) >= 1 /\ r.current[1] = "-"
    THEN [reader |-> r, buffer |-> buffer, ok |-> FALSE]
    ELSE [reader |-> [r EXCEPT !.location = Len(r.current)],
          buffer |-> r.current, ok |-> TRUE]

\* next_argument with the rest of the current raw argument passed over: the
\* value is always looked for in the next raw argument.
next_argument_skipsRest(r, buffer, av) ==
  IF r.itr = r.end
    THEN [reader |-> r, buffer |-> buffer, ok |-> FALSE]
    ELSE TakeCurrent(Fetch(r, av), buffer)

\* next_argument with the test for an option-shaped value applied to the rest
\* of the current raw argument too.
next_argument_refusesPrefix(r, buffer, av) ==
  IF r.location # 0 /\ r.location # Len(r.current)
    THEN IF r.process_options /\ r.current[r.location + 1] = "-"
           THEN [reader |-> r, buffer |-> buffer, ok |-> FALSE]
           ELSE [reader |-> [r EXCEPT !.location = Len(r.current)],
                 buffer |-> Suffix(r.current, r.location + 1), ok |-> TRUE]
  ELSE IF r.location = Len(r.current) /\ r.itr = r.end
    THEN [reader |-> r, buffer |-> buffer, ok |-> FALSE]
  ELSE IF r.location = Len(r.current)
    THEN TakeCurrent(Fetch(r, av), buffer)
  ELSE TakeCurrent(r, buffer)

\* ArgReader::next_argument: the reader, the buffer and the returned bool.
next_argument(r, buffer, av) ==
  IF r.location # 0 /\ r.location # Len(r.current)
    THEN [reader |-> [r EXCEPT !.location = Len(r.current)],
          buffer |-> Suffix(r.current, r.location + 1), ok |-> TRUE]
  ELSE IF r.location = Len(r.current) /\ r.itr = r.end
    THEN [reader |-> r, buffer |-> buffer, ok |-> FALSE]
  ELSE IF r.location = Len(r.current)
    THEN TakeCurrent(Fetch(r, av), buffer)
  ELSE TakeCurrent(r, buffer)

(***************************************************************************)
(* Option::parse.  The result is the option and the reader after the call  *)
(* and the error that ended the process inside the call, or "none".        *)
(***************************************************************************)
\* Flag<T>::parse assigning only when the value is not the constant yet.
Flag_parse_whenUnset(option, r, av) ==
  [option |-> IF option.value = option.constant THEN option
              ELSE [option EXCEPT !.value = option.constant,
                                  !.writes = @ + 1],
   reader |-> r, err |-> "none"]

\* Flag<T>::parse
Flag_parse(option, r, av) ==
  [option |-> [option EXCEPT !.value = option.constant, !.writes = @ + 1],
   reader |-> r, err |-> "none"]

\* AggFlag<T>::parse
AggFlag_parse(option, r, av) ==
  [option |-> [option EXCEPT
                 !.value = Aggregate(option.aggregator, option.value,
                                     option.constant),
                 !.writes = @ + 1],
   reader |-> r, err |-> "none"]

\* SingleOption<T>::parse keeping the value of the first occurrence.
SingleOption_convert_keepsFirst(option, a) ==
  Bind(Convert(option.converter, a.buffer),
       LAMBDA c : IF c.ok
                    THEN [option |-> IF option.writes > 0 THEN option
                                     ELSE [option EXCEPT !.value = c.value,
                                                         !.writes = @ + 1],
                          reader |-> a.reader, err |-> "none"]
                    ELSE [option |-> option, reader |-> a.reader,
                          err |-> "ConversionError"])

\* SingleOption<T>::parse: parse_error and required_argument_error exit.
\* a is what next_argument returned.
SingleOption_convert(option, a) ==
  Bind(Convert(option.converter, a.buffer),
       LAMBDA c : IF c.ok
                    THEN [option |-> [option EXCEPT !.value = c.value,
                                                    !.writes = @ + 1],
                          reader |-> a.reader, err |-> "none"]
                    ELSE [option |-> option, reader |-> a.reader,
                          err |-> "ConversionError"])

SingleOption_parse(option, r, av) ==
  Bind(next_argument(r, <<>>, av),
       LAMBDA a : IF a.reader.fault
                    THEN [option |-> option, reader |-> a.reader, err |-> "none"]
                  ELSE IF a.ok
                    THEN SingleOption_convert(option, a)
                    ELSE [option |-> option, reader |-> a.reader,
                          err |-> "MissingArgumentError"])

\* Argument<T>::parse, the parse of a positional: the value contract of a
\* single-value option.
Argument_parse(option, r, av) == SingleOption_parse(option, r, av)

\* The virtual call option->parse(reader).
Option_parse(option, r, av) ==
  CASE option.kind = "Flag" -> Flag_parse(option, r, av)
    [] option.kind = "AggFlag" -> AggFlag_parse(option, r, av)
    [] option.kind = "SingleOption" -> SingleOption_parse(option, r, av)
    [] option.kind = "Argument" -> Argument_parse(option, r, av)

(***************************************************************************)
(* Parser::parse.  A frame is the state one parse call works on: the       *)
(* options and positionals (their value slots), the reader and the locals  *)
(* of parse.  so and lo are the short and long name maps, av is argv.      *)
(***************************************************************************)
\* option->parse(reader) on a member of `options` and what follows it in the
\* loop: exit(1) inside the call, or the next iteration.
\* The parse goes on after an option's parse has reported an error.
AfterOption_continues(f, i, res) ==
  [f EXCEPT !.options[i] = res.option,
            !.reader = res.reader,
            !.calls.options[i] = @ + 1,
            !.err = res.err,
            !.raised_by = IF res.err = "none" THEN @
                          ELSE [list |-> "options", index |-> i],
            !.pc = "loop"]

\* option->second->parse(reader) has returned or has ended the process: the
\* option and the reader are as the call left them.
AfterOption(f, i, res) ==
  [f EXCEPT !.options[i] = res.option,
            !.reader = res.reader,
            !.calls.options[i] = @ + 1,
            !.err = res.err,
            !.raised_by = IF res.err = "none" THEN @
                          ELSE [list |-> "options", index |-> i],
            !.pc = IF res.reader.fault THEN "fault"
                   ELSE IF res.err = "none" THEN "loop" ELSE "error"]

CallOption(f, i, av) ==
  Bind(Option_parse(f.options[i], f.reader, av),
       LAMBDA res : AfterOption(f, i, res))

\* (*args++)->parse(reader) and what follows it: back is the control state the
\* call returns to.
AfterArgument(f, i, res, back) ==
  [f EXCEPT !.arguments[i] = res.option,
            !.args = i,
            !.reader = res.reader,
            !.calls.arguments[i] = @ + 1,
            !.err = res.err,
            !.raised_by = IF res.err = "none" THEN @
                          ELSE [list |-> "arguments", index |-> i],
            !.pc = IF res.reader.fault THEN "fault"
                   ELSE IF res.err = "none" THEN back ELSE "error"]

CallArgument(f, av, back) ==
  Bind(Option_parse(f.arguments[f.args + 1], f.reader, av),
       LAMBDA res : AfterArgument(f, f.args + 1, res, back))

\* The parser's own exit(1).
ParserExit(f, kind) ==
  [f EXCEPT !.pc = "error", !.err = kind,
            !.raised_by = [list |-> "parser", index |-> 0]]

\* The loop condition: type = reader.next_flag(flag), compared with ot::end.
NextFlagStep(f, av) ==
  Bind(next_flag(f.reader, f.flag, av),
       LAMBDA n : [f EXCEPT !.reader = n.reader, !.flag = n.buffer,
                            !.type = n.type,
                            !.calls.loop = IF n.type \in {"end", "none"}
                                             THEN @ ELSE @ + 1,
                            !.pc = IF n.reader.fault THEN "fault"
                                   ELSE IF n.type = "end" THEN "tail"
                                   ELSE "dispatch"])

\* case ot::short_opt
ShortOptStep(f, so, av) ==
  IF f.flag[1] \notin DOMAIN so
    THEN ParserExit(f, "UnknownOptionError")
    ELSE CallOption(f, so[f.flag[1]], av)

\* A long option that is not registered is passed over.
LongOptStep_ignoresUnknown(f, lo, av) ==
  IF f.flag \notin DOMAIN lo
    THEN [f EXCEPT !.pc = "loop"]
    ELSE CallOption(f, lo[f.flag], av)

\* A long option is looked up as an abbreviation: an unregistered payload stands
\* for a registered name it begins.
LongOptStep_abbreviates(f, lo, av) ==
  LET begun == {n \in DOMAIN lo : Len(n) >= Len(f.flag)
                                   /\ SubSeq(n, 1, Len(f.flag)) = f.flag}
  IN  IF f.flag \in DOMAIN lo THEN CallOption(f, lo[f.flag], av)
      ELSE IF begun = {} THEN ParserExit(f, "UnknownOptionError")
      ELSE CallOption(f, lo[CHOOSE n \in begun : TRUE], av)

\* case ot::long_opt
LongOptStep(f, lo, av) ==
  IF f.flag \notin DOMAIN lo
    THEN ParserExit(f, "UnknownOptionError")
    ELSE CallOption(f, lo[f.flag], av)

\* A value that no positional is left for is passed over.
ArgumentStep_ignoresExtra(f, av) ==
  IF f.args = Len(f.arguments)
    THEN [f EXCEPT !.pc = "loop"]
    ELSE CallArgument(f, av, "loop")

\* case ot::argument
ArgumentStep(f, av) ==
  IF f.args = Len(f.arguments)
    THEN ParserExit(f, "UnexpectedArgumentError")
    ELSE CallArgument(f, av, "loop")

\* case ot::marker
MarkerStep(f) == [f EXCEPT !.pc = "loop"]

\* The parse ends without the loop over the positionals that are left.
TailStep_forgets(f, av) == [f EXCEPT !.pc = "done"]

\* One iteration of the loop that follows the dispatch loop.
TailStep(f, av) ==
  IF f.args = Len(f.arguments)
    THEN [f EXCEPT !.pc = "done"]
    ELSE CallArgument(f, av, "tail")

\* The switch on type.
DispatchStep(f, so, lo, av) ==
  CASE f.type = "short_opt" -> ShortOptStep(f, so, av)
    [] f.type = "long_opt" -> LongOptStep(f, lo, av)
    [] f.type = "argument" -> ArgumentStep(f, av)
    [] f.type = "marker" -> MarkerStep(f)

\* The frame at the entry of parse, after the reader is constructed.
ParseEntry(opts, posargs, ac) ==
  [options |-> opts, arguments |-> posargs, reader |-> NewArgReader(ac),
   args |-> 0, flag |-> <<>>, type |-> "none", pc |-> "loop", err |-> "none",
   raised_by |-> [list |-> "none", index |-> 0],
   calls |-> [options |-> [i \in 1..Len(opts) |-> 0],
              arguments |-> [i \in 1..Len(posargs) |-> 0], loop |-> 0]]

\* Parser::parse run from the frame f to its end: the final frame.
RECURSIVE RunFrom(_, _, _, _)
RunFrom(f, so, lo, av) ==
  CASE f.pc = "loop" -> RunFrom(NextFlagStep(f, av), so, lo, av)
    [] f.pc = "dispatch" -> RunFrom(DispatchStep(f, so, lo, av), so, lo, av)
    [] f.pc = "tail" -> RunFrom(TailStep(f, av), so, lo, av)
    [] OTHER -> f

\* Parser::parse(Len(av), av) on a parser with the given registry.
Parse(opts, posargs, so, lo, av) ==
  RunFrom(ParseEntry(opts, posargs, Len(av)), so, lo, av)

(***************************************************************************)
(* Declarations.                                                           *)
(***************************************************************************)
EmptyRegistry ==
  [options |-> <<>>, short_options |-> <<>>, long_options |-> <<>>,
   error |-> "none"]

\* The declaration d = [kind, names, ...] made on reg; .meta_var(d.meta_var) is
\* called on the option add_option returns when d has the field.
Declare(reg, d) ==
  CASE d.kind = "Flag" -> add_flag(reg, d.names, d.constant, d.def)
    [] d.kind = "AggFlag" ->
         add_agg_flag(reg, d.names, d.constant, d.def, d.aggregator)
    [] d.kind = "SingleOption" ->
         Bind(add_option(reg, d.names, d.def, d.converter),
              LAMBDA r : IF r.error = "none" /\ "meta_var" \in DOMAIN d
                           THEN [r EXCEPT !.options[Len(r.options)] =
                                            meta_var(@, d.meta_var)]
                           ELSE r)

\* The declarations of a program made one after the other on reg.
RECURSIVE DeclareAll(_, _, _)
DeclareAll(reg, decls, k) ==
  IF k > Len(decls) THEN reg
  ELSE DeclareAll(Declare(reg, decls[k]), decls, k + 1)

\* The declaration of a positional: it is appended to the positional sequence.
add_argument(posargs, def, converter) ==
  Append(posargs, [kind |-> "Argument", value |-> def, writes |-> 0,
                   converter |-> converter])

\* n string positionals declared one after the other.
RECURSIVE DeclareArguments(_)
DeclareArguments(n) ==
  IF n = 0 THEN <<>> ELSE add_argument(DeclareArguments(n - 1), <<>>, "string")

(***************************************************************************)
(* The program whose parse is explored: the options of readme_example.cxx  *)
(* and a string option -b, with up to MaxPos string positionals.           *)
(***************************************************************************)
ProgramDecls ==
  << [kind |-> "Flag",
      names |-> << <<"-", "a">>, <<"-", "-", "a", "l", "l">>,
                   <<"-", "-", "a", "l", "i", "a", "s">> >>,
      constant |-> TRUE, def |-> FALSE],
     [kind |-> "AggFlag",
      names |-> << <<"-", "v">>, <<"-", "-", "v", "e", "r", "b", "o", "s", "e">> >>,
      constant |-> 1, def |-> 0, aggregator |-> "add"],
     [kind |-> "SingleOption",
      names |-> << <<"-", "i">>, <<"-", "-", "i", "n", "t", "e", "g", "e", "r">> >>,
      def |-> 0, converter |-> "int", meta_var |-> <<"i", "n", "t">>],
     [kind |-> "SingleOption",
      names |-> << <<"-", "b">> >>,
      def |-> <<>>, converter |-> "string"] >>

ProgramRegistry == DeclareAll(EmptyRegistry, ProgramDecls, 1)

\* The place in `options` of the program's option declared with the name: the
\* declarations are put into the vector in their order.
OptionNamed(name) ==
  CHOOSE k \in 1..Len(ProgramDecls) :
    \E j \in 1..Len(ProgramDecls[k].names) : ProgramDecls[k].names[j] = name

OptAll == OptionNamed(<<"-", "a">>)
OptVerbose == OptionNamed(<<"-", "v">>)
OptInteger == OptionNamed(<<"-", "i">>)
OptB == OptionNamed(<<"-", "b">>)

\* The raw arguments the argument vectors are made of.
Tokens ==
  { <<>>,
    <<"-">>,
    <<"-", "-">>,
    <<"-", "a">>,
    <<"-", "b">>,
    <<"-", "a", "b">>,
    <<"-", "v">>,
    <<"-", "v", "v">>,
    <<"-", "i">>,
    <<"-", "i", "5">>,
    <<"5">>,
    <<"h", "i">>,
    <<"-", "x">>,
    <<"-", "-", "v", "e", "r", "b", "o", "s", "e">>,
    <<"-", "-", "x">> }

ProgramName == <<"p", "r", "o", "g">>

(***************************************************************************)
(* The state machine of one parse.                                         *)
(***************************************************************************)
NoReader == NewArgReader(0)

Frame ==
  [options |-> options, arguments |-> arguments, reader |-> reader,
   args |-> args, flag |-> flag, type |-> type, pc |-> pc, err |-> err,
   raised_by |-> raised_by, calls |-> calls]

SetFrame(f) ==
  /\ options' = f.options
  /\ arguments' = f.arguments
  /\ reader' = f.reader
  /\ args' = f.args
  /\ flag' = f.flag
  /\ type' = f.type
  /\ pc' = f.pc
  /\ err' = f.err
  /\ raised_by' = f.raised_by
  /\ calls' = f.calls
  /\ UNCHANGED <<short_options, long_options, decl_names, decl_error, argv,
                 argc>>

Init ==
  /\ options = ProgramRegistry.options
  /\ short_options = ProgramRegistry.short_options
  /\ long_options = ProgramRegistry.long_options
  /\ \E n \in 0..MaxPos : arguments = DeclareArguments(n)
  /\ decl_names = <<>>
  /\ decl_error = "none"
  /\ \E n \in 0..MaxArgs : \E t \in [1..n -> Tokens] : argv = <<ProgramName>> \o t
  /\ argc = Len(argv)
  /\ reader = NoReader
  /\ args = 0
  /\ flag = <<>>
  /\ type = "none"
  /\ pc = "start"
  /\ err = "none"
  /\ raised_by = [list |-> "none", index |-> 0]
  /\ calls = [options |-> [i \in 1..Len(options) |-> 0],
              arguments |-> [i \in 1..Len(arguments) |-> 0], loop |-> 0]

\* parse(argc, argv) is entered: the reader is constructed.
ParseBegin ==
  /\ pc = "start"
  /\ \E f \in {ParseEntry(options, arguments, argc)} : SetFrame(f)

\* The loop condition calls next_flag.
NextFlag ==
  /\ pc = "loop"
  /\ \E f0 \in {Frame} : \E f \in {NextFlagStep(f0, argv)} : SetFrame(f)

DispatchShort ==
  /\ pc = "dispatch"
  /\ type = "short_opt"
  /\ \E f0 \in {Frame} : \E f \in {ShortOptStep(f0, short_options, argv)} : SetFrame(f)

DispatchLong ==
  /\ pc = "dispatch"
  /\ type = "long_opt"
  /\ \E f0 \in {Frame} : \E f \in {LongOptStep(f0, long_options, argv)} : SetFrame(f)

DispatchArgument ==
  /\ pc = "dispatch"
  /\ type = "argument"
  /\ \E f0 \in {Frame} : \E f \in {ArgumentStep(f0, argv)} : SetFrame(f)

DispatchMarker ==
  /\ pc = "dispatch"
  /\ type = "marker"
  /\ \E f0 \in {Frame} : \E f \in {MarkerStep(f0)} : SetFrame(f)

\* The loop over the positionals left when the token stream has ended.
TailArguments ==
  /\ pc = "tail"
  /\ \E f0 \in {Frame} : \E f \in {TailStep(f0, argv)} : SetFrame(f)

Next ==
  \/ ParseBegin
  \/ NextFlag
  \/ DispatchShort
  \/ DispatchLong
  \/ DispatchArgument
  \/ DispatchMarker
  \/ TailArguments

Spec == Init /\ [][Next]_vars

\* The same program run to its end: parse is one sequential call, so a step
\* that can be taken is taken.  Every step of Next changes pc or args.
SpecRun == Init /\ [][Next]_vars /\ WF_<<pc, args>>(Next)

(***************************************************************************)
(* The program's parse over argument vectors that hand one text to the     *)
(* program: attached to -i, after -i, after --integer, after the marker    *)
(* and alone.  The texts are the decimal texts of integers, those texts    *)
(* with one more character, and texts that write no int: the empty text, a *)
(* sign alone and digits that write a number outside the int range.        *)
(***************************************************************************)
IntSamples ==
  (-MaxInt..MaxInt)
    \cup {IntMin, IntMin + 1, IntMax - 1, IntMax, 10^9, -(10^9), 10^9 - 1, 100, -999}

Trailing == {"x", ".", " ", "-"}

DigitChar(d) == CHOOSE c \in Digits : DigitValue(c) = d

\* The decimal digits of -n, for n <= 0.
RECURSIVE NegDigits(_)
NegDigits(n) ==
  IF n > -10 THEN <<DigitChar(-n)>>
  ELSE LET d == (10 - (n % 10)) % 10
       IN  NegDigits((n + d) \div 10) \o <<DigitChar(d)>>

\* The decimal text of the integer i.
ToDecimal(i) == IF i < 0 THEN <<"-">> \o NegDigits(i) ELSE NegDigits(-i)

Texts ==
  {ToDecimal(i) : i \in IntSamples}
    \cup {ToDecimal(i) \o <<c>> : i \in IntSamples, c \in Trailing}

\* Texts that are not the decimal text of an int: no character, white space
\* only, a sign with no digit, and the numbers IntMax + 1, IntMin - 1 and
\* IntMax * 10.
NoInt ==
  { <<>>,
    <<" ">>,
    <<VT>>,
    <<"-">>,
    <<"+">>,
    ToDecimal(IntMax \div 10) \o <<DigitChar((IntMax % 10) + 1)>>,
    ToDecimal(-(IntMax \div 10)) \o <<DigitChar((IntMax % 10) + 2)>>,
    ToDecimal(IntMax) \o <<"0">> }

TextVectors(t) ==
  { <<ProgramName, <<"-", "i">> \o t>>,
    <<ProgramName, <<"-", "i">>, t>>,
    <<ProgramName, <<"-", "-", "i", "n", "t", "e", "g", "e", "r">>, t>>,
    <<ProgramName, <<"-", "-">>, t>>,
    <<ProgramName, t>> }

InitConvert ==
  /\ options = ProgramRegistry.options
  /\ short_options = ProgramRegistry.short_options
  /\ long_options = ProgramRegistry.long_options
  /\ \E n \in 0..MaxPos : arguments = DeclareArguments(n)
  /\ decl_names = <<>>
  /\ decl_error = "none"
  /\ \E t \in Texts \cup NoInt : argv \in TextVectors(t)
  /\ argc = Len(argv)
  /\ reader = NoReader
  /\ args = 0
  /\ flag = <<>>
  /\ type = "none"
  /\ pc = "start"
  /\ err = "none"
  /\ raised_by = [list |-> "none", index |-> 0]
  /\ calls = [options |-> [i \in 1..Len(options) |-> 0],
              arguments |-> [i \in 1..Len(arguments) |-> 0], loop |-> 0]

SpecConvert == InitConvert /\ [][Next]_vars

(***************************************************************************)
(* The program's parse over argument vectors with a short-option cluster:  *)
(* up to MaxFlags flags, a single-value option and a remainder, alone or   *)
(* with one raw argument before it or after it.                            *)
(***************************************************************************)
ClusterFlags == {"a", "v"}

ClusterSingles == {"i", "b"}

Remainders ==
  { <<>>, <<"5">>, <<"-", "5">>, <<"a", "b">>, <<"-", "a">>, <<"-", "-">>,
    <<"i", "v">> }

Clusters ==
  { <<"-">> \o fl \o <<o>> \o rem :
      fl \in UNION { [1..n -> ClusterFlags] : n \in 0..MaxFlags },
      o \in ClusterSingles, rem \in Remainders }

Around ==
  { <<>>, << <<"h", "i">> >>, << <<"-", "-">> >>,
    << <<"-", "-", "v", "e", "r", "b", "o", "s", "e">> >> }

InitCluster ==
  /\ options = ProgramRegistry.options
  /\ short_options = ProgramRegistry.short_options
  /\ long_options = ProgramRegistry.long_options
  /\ \E n \in 0..MaxPos : arguments = DeclareArguments(n)
  /\ decl_names = <<>>
  /\ decl_error = "none"
  /\ \E pre \in Around : \E c \in Clusters : \E post \in Around :
       argv = <<ProgramName>> \o pre \o <<c>> \o post
  /\ argc = Len(argv)
  /\ reader = NoReader
  /\ args = 0
  /\ flag = <<>>
  /\ type = "none"
  /\ pc = "start"
  /\ err = "none"
  /\ raised_by = [list |-> "none", index |-> 0]
  /\ calls = [options |-> [i \in 1..Len(options) |-> 0],
              arguments |-> [i \in 1..Len(arguments) |-> 0], loop |-> 0]

SpecCluster == InitCluster /\ [][Next]_vars

(***************************************************************************)
(* The program's parse over argument vectors with a raw argument that      *)
(* starts with two prefix characters: declared long names, beginnings of   *)
(* declared names, names followed by = and a value, and other strings.     *)
(***************************************************************************)
LongTokens ==
  { <<"-", "-", "v", "e", "r", "b", "o", "s", "e">>,
    <<"-", "-", "v", "e", "r", "b">>,
    <<"-", "-", "v">>,
    <<"-", "-", "v", "e", "r", "b", "o", "s", "e", "=", "1">>,
    <<"-", "-", "v", "e", "r", "b", "o", "s", "e", "e">>,
    <<"-", "-", "i", "n", "t", "e", "g", "e", "r">>,
    <<"-", "-", "i", "n", "t", "e", "g", "e", "r", "=", "5">>,
    <<"-", "-", "a", "l", "l">>,
    <<"-", "-", "a", "l", "i", "a", "s">>,
    <<"-", "-", "a", "l">>,
    <<"-", "-", "a", "-", "b">>,
    <<"-", "-", "-">>,
    <<"-", "-", "=">>,
    <<"-", "-", "x">> }

AroundLong == Around \cup { << <<"-", "a">> >>, << <<"5">> >> }

InitLong ==
  /\ options = ProgramRegistry.options
  /\ short_options = ProgramRegistry.short_options
  /\ long_options = ProgramRegistry.long_options
  /\ \E n \in 0..MaxPos : arguments = DeclareArguments(n)
  /\ decl_names = <<>>
  /\ decl_error = "none"
  /\ \E pre \in AroundLong : \E t \in LongTokens : \E post \in AroundLong :
       argv = <<ProgramName>> \o pre \o <<t>> \o post
  /\ argc = Len(argv)
  /\ reader = NoReader
  /\ args = 0
  /\ flag = <<>>
  /\ type = "none"
  /\ pc = "start"
  /\ err = "none"
  /\ raised_by = [list |-> "none", index |-> 0]
  /\ calls = [options |-> [i \in 1..Len(options) |-> 0],
              arguments |-> [i \in 1..Len(arguments) |-> 0], loop |-> 0]

SpecLong == InitLong /\ [][Next]_vars

(***************************************************************************)
(* The program's parse over argument vectors made of up to MaxRepeat       *)
(* occurrences: an option by one of its names, with its value when it      *)
(* takes one, the marker, or a value for a positional.                     *)
(***************************************************************************)
Occurrences ==
  { << <<"-", "a">> >>,
    << <<"-", "-", "a", "l", "l">> >>,
    << <<"-", "-", "a", "l", "i", "a", "s">> >>,
    << <<"-", "v">> >>,
    << <<"-", "-", "v", "e", "r", "b", "o", "s", "e">> >>,
    << <<"-", "i", "7">> >>,
    << <<"-", "i">>, <<"5">> >>,
    << <<"-", "-", "i", "n", "t", "e", "g", "e", "r">>, <<"1", "2">> >>,
    << <<"-", "b", "h", "i">> >>,
    << <<"-", "b">>, <<"5">> >>,
    << <<"-", "-">> >>,
    << <<"h", "i">> >> }

RECURSIVE Flatten(_)
Flatten(seqs) == IF seqs = <<>> THEN <<>> ELSE Head(seqs) \o Flatten(Tail(seqs))

InitRepeat ==
  /\ options = ProgramRegistry.options
  /\ short_options = ProgramRegistry.short_options
  /\ long_options = ProgramRegistry.long_options
  /\ \E n \in 0..MaxPos : arguments = DeclareArguments(n)
  /\ decl_names = <<>>
  /\ decl_error = "none"
  /\ \E n \in 0..MaxRepeat : \E occ \in [1..n -> Occurrences] :
       argv = <<ProgramName>> \o Flatten(occ)
  /\ argc = Len(argv)
  /\ reader = NoReader
  /\ args = 0
  /\ flag = <<>>
  /\ type = "none"
  /\ pc = "start"
  /\ err = "none"
  /\ raised_by = [list |-> "none", index |-> 0]
  /\ calls = [options |-> [i \in 1..Len(options) |-> 0],
              arguments |-> [i \in 1..Len(arguments) |-> 0], loop |-> 0]

SpecRepeat == InitRepeat /\ [][Next]_vars

(***************************************************************************)
(* parse(argc, argv) for every argc from 0 on.  argv is here the memory    *)
(* the pointer argv points at: the argc elements of the vector and then up *)
(* to MaxBeyond words that hold strings too; no string is behind them, and *)
(* reading there ends the process.  What the memory after the vector holds *)
(* is not determined by the program: every content is explored.            *)
(***************************************************************************)
Words ==
  { <<"-", "a">>,
    <<"-", "-", "a", "l", "l">>,
    <<"-", "i">>,
    <<"-", "-">>,
    <<"x">> }

\* The vectors of ac elements: none, or the program name and raw arguments.
Vectors(ac) ==
  IF ac = 0 THEN {<<>>}
  ELSE {<<ProgramName>> \o t : t \in [1..(ac - 1) -> Words]}

InitVector ==
  /\ options = ProgramRegistry.options
  /\ short_options = ProgramRegistry.short_options
  /\ long_options = ProgramRegistry.long_options
  /\ \E n \in 0..MaxPos : arguments = DeclareArguments(n)
  /\ decl_names = <<>>
  /\ decl_error = "none"
  /\ argc \in 0..MaxArgs
  /\ \E v \in Vectors(argc) : \E n \in 0..MaxBeyond : \E beyond \in [1..n -> Words] :
       argv = v \o beyond
  /\ reader = NoReader
  /\ args = 0
  /\ flag = <<>>
  /\ type = "none"
  /\ pc = "start"
  /\ err = "none"
  /\ raised_by = [list |-> "none", index |-> 0]
  /\ calls = [options |-> [i \in 1..Len(options) |-> 0],
              arguments |-> [i \in 1..Len(arguments) |-> 0], loop |-> 0]

SpecVector == InitVector /\ [][Next]_vars

Terminated == pc \in {"done", "error"}

(***************************************************************************)
(* The state machine of the declarations: add_flag, add_agg_flag and       *)
(* add_option called on a parser that starts empty.                        *)
(***************************************************************************)
Registry ==
  [options |-> options, short_options |-> short_options,
   long_options |-> long_options]

\* The names the declarations are made of: short and long names, and strings
\* of every other shape.
DeclNames ==
  { <<"-", "a">>, <<"-", "b">>, <<"-", "-", "a">>, <<"-", "-", "a", "-">>,
    <<>>, <<"-">>, <<"-", "-">>, <<"-", "=">>, <<"-", "a", "b">>,
    <<"-", "-", "a", "=">>, <<"a", "b">>, <<"a", "-", "a">>,
    <<"-", "-", "-">> }

NameLists == UNION { [1..n -> DeclNames] : n \in 0..MaxNames }

SetRegistry(names, reg) ==
  /\ options' = reg.options
  /\ short_options' = reg.short_options
  /\ long_options' = reg.long_options
  /\ decl_names' = names
  /\ decl_error' = reg.error
  /\ UNCHANGED <<arguments, argv, argc, reader, args, flag, type, pc, err,
                 raised_by, calls>>

InitDeclare ==
  /\ options = <<>>
  /\ short_options = <<>>
  /\ long_options = <<>>
  /\ arguments = <<>>
  /\ decl_names = <<>>
  /\ decl_error = "none"
  /\ argv = <<ProgramName>>
  /\ argc = 1
  /\ reader = NoReader
  /\ args = 0
  /\ flag = <<>>
  /\ type = "none"
  /\ pc = "declare"
  /\ err = "none"
  /\ raised_by = [list |-> "none", index |-> 0]
  /\ calls = [options |-> <<>>, arguments |-> <<>>, loop |-> 0]

AddFlag ==
  /\ pc = "declare"
  /\ Len(options) < MaxDecls
  /\ \E names \in NameLists :
       \E reg \in {add_flag(Registry, names, TRUE, FALSE)} :
         SetRegistry(names, reg)

AddAggFlag ==
  /\ pc = "declare"
  /\ Len(options) < MaxDecls
  /\ \E names \in NameLists :
       \E reg \in {add_agg_flag(Registry, names, 1, 0, "add")} :
         SetRegistry(names, reg)

AddOption ==
  /\ pc = "declare"
  /\ Len(options) < MaxDecls
  /\ \E names \in NameLists :
       \E reg \in {add_option(Registry, names, <<>>, "string")} :
         SetRegistry(names, reg)

\* The texts meta_var is called with.
MetaVarTexts == {<<>>, <<"i", "n", "t">>}

\* The names in the sequence are all different.
Distinct(names) ==
  \A j, k \in 1..Len(names) : names[j] = names[k] => j = k

\* add_option returned a reference to option i of the list.  register_option
\* puts the option into the list and then binds its names one by one; it
\* throws, and add_option returns nothing, at the first name that is bound
\* already, to another option or to this one by an earlier name of the same
\* list, and no binding is ever changed or removed.  So the call returned
\* exactly when every name of the option is bound to it and none is repeated.
Returned(i) ==
  /\ options[i].kind = "SingleOption"
  /\ Distinct(options[i].short_names)
  /\ Distinct(options[i].long_names)
  /\ \A j \in 1..Len(options[i].short_names) :
       short_options[options[i].short_names[j]] = i
  /\ \A j \in 1..Len(options[i].long_names) :
       long_options[options[i].long_names[j]] = i

\* meta_var called through a reference add_option has returned, at any time
\* after the call.  Nothing else reaches an option: the list is private to the
\* parser, and an add_option that throws returns nothing.
MetaVar ==
  /\ pc = "declare"
  /\ \E i \in 1..Len(options) : \E text \in MetaVarTexts :
       /\ Returned(i)
       /\ options' = [options EXCEPT ![i] = meta_var(@, text)]
  /\ UNCHANGED <<short_options, long_options, arguments, decl_names,
                 decl_error, argv, argc, reader, args, flag, type, pc, err,
                 raised_by, calls>>

\* The step is a call of add_flag, add_agg_flag or add_option: it appends an
\* option or leaves the option list as it is, while meta_var, the other step of
\* the declarations, changes an option of the list in place.
DeclarationStep ==
  /\ pc = "declare"
  /\ Len(options') # Len(options) \/ options' = options

NextDeclare ==
  \/ AddFlag
  \/ AddAggFlag
  \/ AddOption
  \/ MetaVar

SpecDeclare == InitDeclare /\ [][NextDeclare]_vars


(***************************************************************************)
(* What a parse leaves behind: the error and the value of every option and *)
(* positional.                                                             *)
(***************************************************************************)
Outcome(f) ==
  [err |-> f.err,
   options |-> [i \in 1..Len(f.options) |-> f.options[i].value],
   arguments |-> [i \in 1..Len(f.arguments) |-> f.arguments[i].value]]

\* The outcome of the program's parse of av, from its declared defaults.
ProgramOutcome(av) ==
  Outcome(Parse(ProgramRegistry.options, DeclareArguments(Len(arguments)),
                short_options, long_options, av))

IsShortOf(c, kinds) ==
  c \in DOMAIN short_options /\ options[short_options[c]].kind \in kinds

\* A raw argument -f1...fnb: no-argument flags, then a single-value option.
IsCluster(tok) ==
  /\ Len(tok) >= 3
  /\ tok[1] = "-"
  /\ \A k \in 2..(Len(tok) - 1) : IsShortOf(tok[k], {"Flag", "AggFlag"})
  /\ IsShortOf(tok[Len(tok)], {"SingleOption"})

\* -f1...fnb as the separate raw arguments -f1 ... -fn -b.
Separate(tok) == [k \in 1..(Len(tok) - 1) |-> <<"-", tok[k + 1]>>]

SeparateAt(av, k) ==
  SubSeq(av, 1, k - 1) \o Separate(av[k]) \o SubSeq(av, k + 1, Len(av))

MarkerBefore(av, k) == \E j \in 2..(k - 1) : av[j] = <<"-", "-">>

\* C1: a parse of an argument vector with a cluster -f1...fnb (not after the
\* end-of-options marker) ends with the same error and the same value of every
\* option and positional as the parse of the vector with the cluster written as
\* the separate raw arguments -f1 ... -fn -b.
C1_ClusterSameAsSeparate ==
  Terminated =>
    \A k \in 2..Len(argv) :
      (IsCluster(argv[k]) /\ ~MarkerBefore(argv, k)) =>
        Outcome(Frame) = ProgramOutcome(SeparateAt(argv, k))

\* -ab hi was parsed: a holds its constant and b holds "hi".
C1_Witness ==
  /\ pc = "done"
  /\ argv = <<ProgramName, <<"-", "a", "b">>, <<"h", "i">> >>
  /\ options[OptAll].value = TRUE
  /\ options[OptB].value = <<"h", "i">>

\* The option a short-option token names, when its character is registered.
ShortTarget == short_options[flag[1]]

\* A short-option token was emitted from inside a raw argument and characters
\* of that raw argument are left after it.
MidToken ==
  /\ pc = "dispatch"
  /\ type = "short_opt"
  /\ reader.location # Len(reader.current)

\* C2: a single-value short option followed by further characters in the same
\* raw argument takes the conversion of exactly those characters as its value
\* (-i5 gives 5), and the fetch reads no further raw argument: itr and current
\* stay and the cursor is left at the end of the raw argument.
C2_AttachedValue ==
  [][(MidToken /\ IsShortOf(flag[1], {"SingleOption"})) =>
       LET rest == Suffix(reader.current, reader.location + 1)
           c == Convert(options[ShortTarget].converter, rest)
       IN  /\ reader'.itr = reader.itr
           /\ reader'.current = reader.current
           /\ reader'.location = Len(reader.current)
           /\ IF c.ok
                THEN /\ pc' = "loop"
                     /\ options'[ShortTarget].value = c.value
                     /\ (rest = <<"5">> /\ ShortTarget = OptInteger)
                          => options'[ShortTarget].value = 5
                ELSE /\ pc' = "error"
                     /\ err' = "ConversionError"]_vars

\* -i5 was dispatched: 5 is stored and the raw argument after it is unread.
C2_Witness ==
  /\ pc = "loop"
  /\ reader.current = <<"-", "i", "5">>
  /\ reader.location = 3
  /\ options[OptInteger].value = 5
  /\ reader.itr = 2
  /\ reader.end = 3

\* C3: the marker ends option syntax: when next_flag returns the marker,
\* process_options is false, and from then on every next_flag call returns an
\* argument or the end of the stream, process_options stays false, and no
\* option's value slot or parse count changes.
C3_MarkerEndsOptions ==
  /\ [](type = "marker" => ~reader.process_options)
  /\ [][(pc \in {"loop", "dispatch", "tail"} /\ ~reader.process_options) =>
          /\ ~reader'.process_options
          /\ pc = "loop" => type' \in {"argument", "end"}
          /\ options' = options
          /\ calls'.options = calls.options]_vars

\* -- -a was parsed with a positional declared: the positional holds "-a" and
\* the flag a holds its default.
C3_Witness ==
  /\ pc = "done"
  /\ argv = <<ProgramName, <<"-", "-">>, <<"-", "a">> >>
  /\ arguments[1].value = <<"-", "a">>
  /\ options[OptAll].value = FALSE

\* A raw argument made of no-argument flags only: a short cluster of them or
\* one of their long names.
IsLongOf(name, kinds) ==
  name \in DOMAIN long_options /\ options[long_options[name]].kind \in kinds

FlagsOnly(tok) ==
  \/ /\ Len(tok) >= 2
     /\ tok[1] = "-"
     /\ \A k \in 2..Len(tok) : IsShortOf(tok[k], {"Flag", "AggFlag"})
  \/ /\ Len(tok) > 2
     /\ tok[1] = "-"
     /\ tok[2] = "-"
     /\ IsLongOf(Suffix(tok, 3), {"Flag", "AggFlag"})

\* How often a raw argument of flags names the verbosity flag.
VerboseIn(tok) ==
  IF tok[2] = "-" THEN (IF long_options[Suffix(tok, 3)] = OptVerbose THEN 1 ELSE 0)
  ELSE Cardinality({k \in 2..Len(tok) : short_options[tok[k]] = OptVerbose})

RECURSIVE VerboseCount(_, _)
VerboseCount(av, k) ==
  IF k > Len(av) THEN 0 ELSE VerboseIn(av[k]) + VerboseCount(av, k + 1)

\* C6: the verbosity flag (constant 1, default 0, aggregator +) holds default + k
\* after it was matched k times: at every moment k is the number of times its
\* parse was invoked, and after the parse of a vector of flags only k is the
\* number of times the vector names it, short, long or inside a cluster.
C6_AggFlagCounts ==
  /\ options[OptVerbose].value =
       ProgramDecls[OptVerbose].def + calls.options[OptVerbose]
  /\ (Terminated /\ \A k \in 2..Len(argv) : FlagsOnly(argv[k])) =>
       options[OptVerbose].value =
         ProgramDecls[OptVerbose].def + VerboseCount(argv, 2)

\* -vv -a --verbose was parsed: the flag was matched three times.
C6_Witness ==
  /\ pc = "done"
  /\ calls.options[OptVerbose] = 3
  /\ argv = <<ProgramName, <<"-", "v", "v">>, <<"-", "a">>,
              <<"-", "-", "v", "e", "r", "b", "o", "s", "e">> >>
  /\ options[OptVerbose].value = 3

\* C7: when the token stream has ended and a positional is still unmatched, the
\* parse ends with MissingArgumentError raised by the first unmatched
\* positional, whose value slot keeps its value; a parse never ends
\* successfully with a positional unmatched.
C7_MissingPositional ==
  /\ [](pc = "done" => args = Len(arguments))
  /\ [][(pc = "tail" /\ args < Len(arguments)) =>
          /\ type = "end"
          /\ pc' = "error"
          /\ err' = "MissingArgumentError"
          /\ raised_by' = [list |-> "arguments", index |-> args + 1]
          /\ \A i \in 1..Len(arguments) :
               arguments'[i].value = arguments[i].value]_vars

\* One value for two positionals: the second positional raised the error.
C7_Witness ==
  /\ pc = "error"
  /\ type = "end"
  /\ Len(arguments) = 2
  /\ err = "MissingArgumentError"
  /\ raised_by = [list |-> "arguments", index |-> 2]
  /\ calls.arguments[1] = 1

\* C8: a positional/value token emitted when every positional is matched ends
\* the parse with UnexpectedArgumentError; the token named is the raw argument
\* just read, and no option or positional changes.
C8_UnexpectedArgument ==
  [][(pc = "dispatch" /\ type = "argument" /\ args = Len(arguments)) =>
       /\ pc' = "error"
       /\ err' = "UnexpectedArgumentError"
       /\ flag' = flag
       /\ flag = reader.current
       /\ options' = options
       /\ arguments' = arguments
       /\ calls' = calls]_vars

\* A third value arrived after both positionals were matched.
C8_Witness ==
  /\ pc = "error"
  /\ err = "UnexpectedArgumentError"
  /\ Len(arguments) = 2
  /\ args = 2
  /\ calls.arguments[2] = 1
  /\ flag = <<"h", "i">>

\* The option a long-option token names, when its name is registered.
LongTarget == long_options[flag]

\* A token naming a single-value option was emitted and the cursor is at the
\* end of its raw argument.
SingleAtEnd ==
  /\ pc = "dispatch"
  /\ reader.location = Len(reader.current)
  /\ \/ type = "short_opt" /\ IsShortOf(flag[1], {"SingleOption"})
     \/ type = "long_opt" /\ IsLongOf(flag, {"SingleOption"})

SingleTarget == IF type = "short_opt" THEN ShortTarget ELSE LongTarget

OptionShaped(tok) == Len(tok) >= 1 /\ tok[1] = "-"

\* C9: a single-value option matched at the end of a raw argument ends the
\* parse with MissingArgumentError when no raw argument is left or the next one
\* starts with the prefix character (option syntax is honored whenever an
\* option token is emitted); the option keeps its value.  Otherwise the next raw
\* argument, which is not option-shaped, is what the converter gets.
C9_NoOptionAsValue ==
  /\ [](pc = "dispatch" /\ type \in {"short_opt", "long_opt"}
          => reader.process_options)
  /\ [][SingleAtEnd =>
          IF reader.itr = reader.end \/ OptionShaped(Deref(argv, reader.itr))
            THEN /\ pc' = "error"
                 /\ err' = "MissingArgumentError"
                 /\ raised_by' = [list |-> "options", index |-> SingleTarget]
                 /\ options' = options
            ELSE LET c == Convert(options[SingleTarget].converter,
                                  Deref(argv, reader.itr))
                 IN  /\ reader'.itr = reader.itr + 1
                     /\ IF c.ok
                          THEN /\ pc' = "loop"
                               /\ options'[SingleTarget].value = c.value
                          ELSE /\ err' = "ConversionError"
                               /\ options' = options]_vars

\* -b was followed by the raw argument -a: the parse ended and b is unset.
C9_Witness ==
  /\ pc = "error"
  /\ err = "MissingArgumentError"
  /\ raised_by = [list |-> "options", index |-> OptB]
  /\ reader.current = <<"-", "a">>
  /\ options[OptB].value = <<>>
  /\ options[OptAll].value = FALSE

\* The declaration of the program that lists the name.
DeclaredBy(name) ==
  {k \in 1..Len(ProgramDecls) :
     \E j \in 1..Len(ProgramDecls[k].names) : ProgramDecls[k].names[j] = name}

\* The name a short-option or long-option token stands for.
TokenName ==
  IF type = "short_opt" THEN <<"-">> \o flag ELSE <<"-", "-">> \o flag

\* C10: a short-option or long-option token whose name no declaration lists
\* ends the parse with UnknownOptionError and changes no option; a token whose
\* name a declaration lists invokes the parse of that declaration's option,
\* once, and leaves every other option and every positional alone.
C10_Dispatch ==
  [][(pc = "dispatch" /\ type \in {"short_opt", "long_opt"}) =>
       IF DeclaredBy(TokenName) = {}
         THEN /\ pc' = "error"
              /\ err' = "UnknownOptionError"
              /\ options' = options
              /\ arguments' = arguments
              /\ calls' = calls
         ELSE \E i \in DeclaredBy(TokenName) :
                /\ calls'.options = [calls.options EXCEPT ![i] = @ + 1]
                /\ \A j \in 1..Len(options) : j # i => options'[j] = options[j]
                /\ arguments' = arguments
                /\ calls'.arguments = calls.arguments]_vars

\* --verbose was dispatched to the verbosity flag, then --x was refused.
C10_Witness ==
  /\ pc = "error"
  /\ err = "UnknownOptionError"
  /\ type = "long_opt"
  /\ flag = <<"x">>
  /\ calls.options = <<0, 1, 0, 0>>

\* A name of DeclNames is short when it has two characters and long otherwise.
\* Some name of the list is a key of the map of its kind.
Collides(names) ==
  \E j \in 1..Len(names) :
    \/ Len(names[j]) = 2 /\ names[j][2] \in DOMAIN short_options
    \/ Len(names[j]) > 2 /\ Suffix(names[j], 3) \in DOMAIN long_options

Repeats(names) ==
  \E j, k \in 1..Len(names) : j # k /\ names[j] = names[k]

\* C4: a declaration that lists a short name already in the short-name map or a
\* long name already in the long-name map throws DuplicateNameError.  The two
\* maps are apart: a declaration none of whose names is in the map of its kind,
\* and that lists no name twice, succeeds and binds each of its names to the new
\* option, whether or not the same characters are a name of the other kind.
C4_DuplicateName ==
  [][(DeclarationStep /\ Len(decl_names') >= 1
        /\ \A j \in 1..Len(decl_names') :
              is_short_option(decl_names'[j]) \/ is_long_option(decl_names'[j])) =>
       /\ Collides(decl_names') => decl_error' = "DuplicateNameError"
       /\ (~Collides(decl_names') /\ ~Repeats(decl_names')) =>
            /\ decl_error' = "none"
            /\ Len(options') = Len(options) + 1
            /\ \A j \in 1..Len(decl_names') :
                 IF Len(decl_names'[j]) = 2
                   THEN short_options'[decl_names'[j][2]] = Len(options')
                   ELSE long_options'[Suffix(decl_names'[j], 3)] = Len(options')]_vars

\* -a and --a were declared for two options without a collision, and the
\* declaration of --a that followed was refused.
C4_Witness ==
  /\ decl_error = "DuplicateNameError"
  /\ decl_names = << <<"-", "-", "a">> >>
  /\ "a" \in DOMAIN short_options
  /\ <<"a">> \in DOMAIN long_options
  /\ short_options["a"] = 1
  /\ long_options[<<"a">>] = 1

\* C5: a declaration that throws DuplicateNameError leaves the option list and
\* the two name maps as they were.
C5_DeclareAtomic ==
  [][(DeclarationStep /\ decl_error' = "DuplicateNameError") =>
       /\ options' = options
       /\ short_options' = short_options
       /\ long_options' = long_options]_vars

\* The shapes of a name in the words of the claim: one prefix character and one
\* alphanumeric character; two prefix characters, one alphanumeric character
\* and then alphanumeric characters or hyphens.
Alphanumeric == Digits \cup Lower \cup Upper

ShortShape(name) ==
  \E c \in Alphanumeric : name = <<"-", c>>

LongShape(name) ==
  /\ Len(name) >= 3
  /\ \E c \in Alphanumeric : SubSeq(name, 1, 3) = <<"-", "-", c>>
  /\ {name[k] : k \in 4..Len(name)} \subseteq Alphanumeric \cup {"-"}

Accepted(names) ==
  /\ names # <<>>
  /\ \A j \in 1..Len(names) : ShortShape(names[j]) \/ LongShape(names[j])

\* C11: a declaration's names are accepted exactly when the name list is not
\* empty and each name is a prefix character and one alphanumeric character, or
\* two prefix characters, one alphanumeric character and then alphanumeric
\* characters or hyphens; a declaration whose names are not accepted fails with
\* the invalid-name error and leaves the option list and both name maps as
\* they were.
C11_NameShapes ==
  [][DeclarationStep =>
       /\ Accepted(decl_names') <=> decl_error' # "InvalidNameError"
       /\ ~Accepted(decl_names') =>
            /\ options' = options
            /\ short_options' = short_options
            /\ long_options' = long_options]_vars

\* After -a was declared, a declaration listing -b and --a= was refused, and
\* the registry holds the one option with its one name.
C11_Witness ==
  /\ decl_error = "InvalidNameError"
  /\ decl_names = << <<"-", "b">>, <<"-", "-", "a", "=">> >>
  /\ Len(options) = 1
  /\ DOMAIN short_options = {"a"}
  /\ DOMAIN long_options = {}

\* C12: the int converter returns i for the decimal text of every integer i of
\* the int range, and fails with ConversionError, leaving the option's value,
\* for such a text followed by one more character that is not a digit.  The
\* text reaches the converter attached to -i, or as the raw argument after -i
\* or --integer when it does not start with the prefix character.
C12_IntRoundTrip ==
  Terminated =>
    \A i \in IntSamples :
      LET attached == {<<ProgramName, <<"-", "i">> \o ToDecimal(i)>>}
          apart == IF i < 0 THEN {}
                   ELSE TextVectors(ToDecimal(i)) \ {<<ProgramName, ToDecimal(i)>>,
                          <<ProgramName, <<"-", "-">>, ToDecimal(i)>>}
      IN  /\ argv \in attached \cup apart =>
               (Len(arguments) = 0 => pc = "done") /\ options[OptInteger].value = i
                 /\ err \in {"none", "MissingArgumentError"}
          /\ \A c \in Trailing :
               argv = <<ProgramName, <<"-", "i">> \o ToDecimal(i) \o <<c>> >> =>
                 /\ err = "ConversionError"
                 /\ options[OptInteger].value = ProgramRegistry.options[OptInteger].value

\* -i-2147483648 was parsed and the option holds the least int.
C12_Witness ==
  /\ pc = "done"
  /\ argv = <<ProgramName, <<"-", "i">> \o ToDecimal(IntMin)>>
  /\ options[OptInteger].value = IntMin
  /\ calls.options[OptInteger] = 1

\* The claim's reading of an argument vector, left to right.  KindOfShort and
\* KindOfLong give the kind of the option a name is declared for.
KindOfShort(c) ==
  IF c \in DOMAIN short_options THEN options[short_options[c]].kind ELSE "none"

KindOfLong(name) ==
  IF name \in DOMAIN long_options THEN options[long_options[name]].kind ELSE "none"

\* The offset in the cluster tok of its first single-value option, or 0.
FirstSingle(tok) ==
  IF \E p \in 2..Len(tok) : KindOfShort(tok[p]) = "SingleOption"
    THEN CHOOSE p \in 2..Len(tok) :
           /\ KindOfShort(tok[p]) = "SingleOption"
           /\ \A q \in 2..(p - 1) : KindOfShort(tok[q]) # "SingleOption"
    ELSE 0

\* The option token tok takes the raw argument after it as its value.
TakesNext(tok) ==
  IF tok[2] = "-" THEN KindOfLong(Suffix(tok, 3)) = "SingleOption"
  ELSE FirstSingle(tok) = Len(tok)

\* The raw arguments of av from place k on that are neither an option token,
\* the end-of-options marker nor the value of an option, in their order.
RECURSIVE ValueArgumentsFrom(_, _, _)
ValueArgumentsFrom(av, k, honor) ==
  IF k > Len(av) THEN <<>>
  ELSE IF honor /\ av[k] = <<"-", "-">>
    THEN ValueArgumentsFrom(av, k + 1, FALSE)
  ELSE IF honor /\ Len(av[k]) >= 2 /\ av[k][1] = "-"
    THEN ValueArgumentsFrom(av, IF TakesNext(av[k]) THEN k + 2 ELSE k + 1, honor)
  ELSE <<av[k]>> \o ValueArgumentsFrom(av, k + 1, honor)

ValueArguments == ValueArgumentsFrom(argv, 2, TRUE)

\* C13: in a successful parse the j-th declared positional holds the j-th raw
\* argument that is neither an option token, the end-of-options marker nor
\* the value of an option, however the options are interleaved.
C13_PositionalOrder ==
  pc = "done" =>
    \A j \in 1..Len(arguments) :
      /\ j <= Len(ValueArguments)
      /\ arguments[j].value = ValueArguments[j]

\* The step declares a Flag: add_flag returned and the option list grew by it.
DeclaresFlag ==
  /\ pc = "declare"
  /\ decl_error' = "none"
  /\ Len(options') = Len(options) + 1
  /\ options'[Len(options')].kind = "Flag"

\* C14 as stated: the short usage fragment of a Flag is its first declared
\* name between brackets, whatever the kind of that name.
C14_UsageFirstName ==
  [][DeclaresFlag =>
       options'[Len(options')].short_usage_text
         = <<"[">> \o decl_names'[1] \o <<"]">>]_vars

\* The first short name in the list of names, or <<>> when it has none.
FirstShortName(names) ==
  IF \E j \in 1..Len(names) : Len(names[j]) = 2
    THEN names[CHOOSE j \in 1..Len(names) :
                 /\ Len(names[j]) = 2
                 /\ \A k \in 1..(j - 1) : Len(names[k]) # 2]
    ELSE <<>>

\* C14, amended: the short usage fragment of a Flag is the first short name of
\* the declared list between brackets when the list has a short name, wherever
\* it stands in the list, and the first declared name between brackets when
\* every declared name is long.
C14_UsageFirstShort ==
  [][DeclaresFlag =>
       options'[Len(options')].short_usage_text
         = <<"[">>
             \o (IF FirstShortName(decl_names') # <<>>
                   THEN FirstShortName(decl_names') ELSE decl_names'[1])
             \o <<"]">>]_vars

\* A Flag was declared with the names --a- and -b, in this order, and its short
\* usage fragment is [-b].
C14_Witness ==
  /\ decl_error = "none"
  /\ decl_names = << <<"-", "-", "a", "-">>, <<"-", "b">> >>
  /\ Len(options) >= 1
  /\ options[Len(options)].kind = "Flag"
  /\ options[Len(options)].short_usage_text = <<"[", "-", "b", "]">>

ParseErrors ==
  {"UnknownOptionError", "MissingArgumentError", "ConversionError",
   "UnexpectedArgumentError"}

Values(list) == [i \in 1..Len(list) |-> list[i].value]

\* C15: the step that raises a parse-time error writes no value of an option or
\* positional, and after it nothing changes any more: no token is classified,
\* no parse is invoked and no value is written.
C15_FirstErrorEnds ==
  /\ [][(err = "none" /\ err' # "none") =>
          /\ err' \in ParseErrors
          /\ pc' = "error"
          /\ Values(options') = Values(options)
          /\ Values(arguments') = Values(arguments)]_vars
  /\ [][err # "none" =>
          /\ err' = err
          /\ reader' = reader
          /\ type' = type
          /\ flag' = flag
          /\ calls' = calls
          /\ options' = options
          /\ arguments' = arguments]_vars

\* -i hi -a ended at hi with ConversionError: the integer option holds its
\* default and -a, which follows, was never dispatched.
C15_Witness ==
  /\ pc = "error"
  /\ err = "ConversionError"
  /\ argv = <<ProgramName, <<"-", "i">>, <<"h", "i">>, <<"-", "a">> >>
  /\ options[OptInteger].value = ProgramRegistry.options[OptInteger].value
  /\ options[OptAll].value = FALSE
  /\ calls.options[OptAll] = 0

\* C16: process_options is true when the reader is constructed; it becomes false
\* only in a next_flag call that classifies a whole raw argument -- as the
\* marker, and it is never true again.  So the marker is emitted at most once:
\* once process_options is false no next_flag call returns it, and a raw
\* argument -- that next_flag reads then is emitted as an argument with the
\* payload --.
C16_MarkerOnce ==
  /\ [][pc = "start" => reader'.process_options]_vars
  /\ [][(pc # "start" /\ reader.process_options /\ ~reader'.process_options) =>
          /\ pc = "loop"
          /\ type' = "marker"
          /\ reader'.itr = reader.itr + 1
          /\ Deref(argv, reader.itr) = <<"-", "-">>]_vars
  /\ [][(pc # "start" /\ ~reader.process_options) =>
          /\ ~reader'.process_options
          /\ pc = "loop" => type' # "marker"
          /\ (pc = "loop" /\ reader'.itr = reader.itr + 1
                /\ Deref(argv, reader.itr) = <<"-", "-">>) =>
               (type' = "argument" /\ flag' = <<"-", "-">>)]_vars

\* After the marker a second raw argument -- was read and emitted as an
\* argument with the payload --.
C16_Witness ==
  /\ pc = "dispatch"
  /\ type = "argument"
  /\ flag = <<"-", "-">>
  /\ ~reader.process_options
  /\ argv[2] = <<"-", "-">>
  /\ argv[3] = <<"-", "-">>
  /\ reader.itr = 3

\* next_flag has emitted a positional/value token and a positional is unmatched:
\* the parser is about to call that positional's parse.
ArgumentForPositional ==
  pc = "dispatch" /\ type = "argument" /\ args < Len(arguments)

\* C17: when next_flag has emitted a positional/value token and an unmatched
\* positional remains, the value fetch of that positional's parse returns the
\* payload of the token, which the positional then holds, and takes no further
\* raw argument; so for every such token, the empty string and a lone - too.
C17_ValueIsPayload ==
  [][ArgumentForPositional =>
       /\ err' = "none"
       /\ arguments'[args + 1].value = flag
       /\ reader'.itr = reader.itr]_vars

\* C18: a raw argument that is the one character -, read by next_flag while
\* options are processed, is emitted as an argument with the payload -; it is
\* neither a short option nor the marker, and options go on being processed.
C18_LonePrefix ==
  [][(pc = "loop" /\ reader.process_options /\ reader'.itr = reader.itr + 1
        /\ Deref(argv, reader.itr) = <<"-">>) =>
       /\ type' = "argument"
       /\ flag' = <<"-">>
       /\ reader'.process_options]_vars

\* -a - : after the flag, next_flag read the raw argument - and emitted it as
\* an argument.
C18_Witness ==
  /\ pc = "dispatch"
  /\ type = "argument"
  /\ flag = <<"-">>
  /\ reader.process_options
  /\ reader.current = <<"-">>
  /\ argv[2] = <<"-", "a">>
  /\ reader.itr = 3

\* The raw argument tok is a cluster: a single prefix character, flags, a
\* single-value option and at least one character after it.
IsOpenCluster(tok) ==
  /\ Len(tok) >= 3
  /\ tok[1] = "-"
  /\ tok[2] # "-"
  /\ FirstSingle(tok) \in 2..(Len(tok) - 1)
  /\ \A q \in 2..(FirstSingle(tok) - 1) : KindOfShort(tok[q]) \in {"Flag", "AggFlag"}

\* The first raw argument is a cluster and no other raw argument was read; the
\* reader is at the end of the cluster, or an option's parse has ended the
\* process.
ClusterRead ==
  /\ Len(argv) >= 2
  /\ IsOpenCluster(argv[2])
  /\ reader.itr = 2
  /\ reader.current = argv[2]
  /\ \/ pc = "loop" /\ reader.location = Len(reader.current)
     \/ pc = "error" /\ raised_by.list = "options"

\* C19: the characters of a cluster are emitted as short-option tokens from the
\* left, one per next_flag call, up to the first single-value option; that
\* option is handed every character after it as its value, also when they
\* start with the prefix character, and none of them is dispatched: when the
\* reader is at the end of the cluster, each option was invoked once for each
\* of its characters up to the single-value option and never otherwise.
C19_ClusterRemainder ==
  /\ [][(pc = "loop" /\ type' = "short_opt") =>
          IF reader'.itr = reader.itr
            THEN /\ reader.location \in 2..(Len(reader.current) - 1)
                 /\ reader'.current = reader.current
                 /\ reader'.location = reader.location + 1
                 /\ flag' = <<reader.current[reader.location + 1]>>
            ELSE /\ reader'.location = 2
                 /\ flag' = <<reader'.current[2]>>]_vars
  /\ [](ClusterRead =>
          LET tok == argv[2]
              p == FirstSingle(tok)
              target == short_options[tok[p]]
              c == Convert(options[target].converter, Suffix(tok, p + 1))
          IN  /\ reader.location = Len(tok)
              /\ \A i \in 1..Len(options) :
                   calls.options[i]
                     = Cardinality({q \in 2..p : short_options[tok[q]] = i})
              /\ IF c.ok
                   THEN /\ err = "none"
                        /\ options[target].value = c.value
                   ELSE /\ err = "ConversionError"
                        /\ options[target].value
                             = ProgramRegistry.options[target].value)

\* -avi-5 was parsed: a and v were invoked once each, then i took -5, and
\* nothing else was invoked.
C19_Witness ==
  /\ pc = "done"
  /\ argv = <<ProgramName, <<"-", "a", "v", "i", "-", "5">> >>
  /\ options[OptInteger].value = -5
  /\ options[OptAll].value = TRUE
  /\ calls.options[OptAll] = 1
  /\ calls.options[OptVerbose] = 1
  /\ calls.options[OptInteger] = 1
  /\ calls.options[OptB] = 0

\* The next_flag call about to run fetches a raw argument of three or more
\* characters that starts with two prefix characters, with options processed.
FetchesLong ==
  /\ pc = "loop"
  /\ reader.process_options
  /\ reader.location = Len(reader.current)
  /\ reader.itr < reader.end
  /\ Len(Deref(argv, reader.itr)) >= 3
  /\ SubSeq(Deref(argv, reader.itr), 1, 2) = <<"-", "-">>

\* C20: while options are processed, a raw argument of three or more characters
\* that starts with two prefix characters is emitted as one long-option token
\* whose payload is every character after the two prefixes, with the cursor at
\* the end of the raw argument, so that the next call fetches a new raw
\* argument or reports the end.  The token invokes the option declared with
\* exactly that raw argument as a name; when no declaration lists it, the parse
\* ends with UnknownOptionError and no option is invoked, also when the raw
\* argument begins a declared name or is a declared name followed by = and a
\* value.
C20_LongToken ==
  /\ [][FetchesLong =>
          /\ type' = "long_opt"
          /\ reader'.current = Deref(argv, reader.itr)
          /\ reader'.itr = reader.itr + 1
          /\ flag' = Suffix(reader'.current, 3)
          /\ reader'.location = Len(reader'.current)
          /\ reader'.process_options]_vars
  /\ [][(pc = "dispatch" /\ type = "long_opt") =>
          IF DeclaredBy(reader.current) = {}
            THEN /\ err' = "UnknownOptionError"
                 /\ calls' = calls
                 /\ options' = options
            ELSE \E i \in DeclaredBy(reader.current) :
                   calls'.options = [calls.options EXCEPT ![i] = @ + 1]]_vars
  /\ [][(pc = "loop" /\ type = "long_opt") =>
          \/ type' = "end" /\ reader'.itr = reader.itr
          \/ type' # "end" /\ reader'.itr = reader.itr + 1]_vars

\* --integer=5 was emitted as the long-option token integer=5 and refused: the
\* integer option was not invoked.
C20_Witness ==
  /\ pc = "error"
  /\ err = "UnknownOptionError"
  /\ type = "long_opt"
  /\ flag = <<"i", "n", "t", "e", "g", "e", "r", "=", "5">>
  /\ reader.location = Len(reader.current)
  /\ calls.options[OptInteger] = 0
  /\ options[OptInteger].value = ProgramRegistry.options[OptInteger].value

\* The option names of the cluster tok that are dispatched: its characters up
\* to the first single-value option, or all of them when it has none.
ClusterNames(tok) ==
  [q \in 1..((IF FirstSingle(tok) = 0 THEN Len(tok) ELSE FirstSingle(tok)) - 1)
     |-> <<"-", tok[q + 1]>>]

\* The option names dispatched in a parse of av from place k on, in the claim's
\* reading of the argument vector: the names in the option tokens that are
\* neither after the marker nor the value of an option.
RECURSIVE DispatchedNamesFrom(_, _, _)
DispatchedNamesFrom(av, k, honor) ==
  IF k > Len(av) THEN <<>>
  ELSE IF honor /\ av[k] = <<"-", "-">>
    THEN DispatchedNamesFrom(av, k + 1, FALSE)
  ELSE IF honor /\ Len(av[k]) >= 2 /\ av[k][1] = "-"
    THEN (IF av[k][2] = "-" THEN <<av[k]>> ELSE ClusterNames(av[k]))
           \o DispatchedNamesFrom(av, IF TakesNext(av[k]) THEN k + 2 ELSE k + 1,
                                   honor)
  ELSE DispatchedNamesFrom(av, k + 1, honor)

DispatchedNames == DispatchedNamesFrom(argv, 2, TRUE)

\* How many of the dispatched names are names of the i-th declared option.
NamedCount(i) ==
  Cardinality({q \in 1..Len(DispatchedNames) : i \in DeclaredBy(DispatchedNames[q])})

\* C21: at the end of a successful parse the value of each option was assigned
\* once for each dispatched token naming it by one of its names, an option no
\* token names holds its declared default, and the option list and the two
\* name maps are those of the declarations.
C21_WritesPerMatch ==
  pc = "done" =>
    /\ \A i \in 1..Len(options) :
         /\ options[i].writes = NamedCount(i)
         /\ NamedCount(i) = 0 =>
              options[i].value = ProgramRegistry.options[i].value
         /\ [options[i] EXCEPT !.value = 0, !.writes = 0]
              = [ProgramRegistry.options[i] EXCEPT !.value = 0, !.writes = 0]
    /\ Len(options) = Len(ProgramRegistry.options)
    /\ short_options = ProgramRegistry.short_options
    /\ long_options = ProgramRegistry.long_options

\* -a --verbose -vv was parsed: a was assigned once, the verbosity three times
\* and the other options never.
C21_Witness ==
  /\ pc = "done"
  /\ argv = <<ProgramName, <<"-", "a">>,
              <<"-", "-", "v", "e", "r", "b", "o", "s", "e">>, <<"-", "v", "v">> >>
  /\ options[OptAll].writes = 1
  /\ options[OptVerbose].writes = 3
  /\ options[OptInteger].writes = 0
  /\ options[OptB].writes = 0
  /\ options[OptInteger].value = ProgramRegistry.options[OptInteger].value

\* The matches of the cluster tok, with next the raw argument after it: its
\* flags, and its first single-value option with the characters after it or,
\* when there are none, with the next raw argument.
ClusterMatches(tok, next) ==
  [q \in 1..((IF FirstSingle(tok) = 0 THEN Len(tok) ELSE FirstSingle(tok)) - 1)
     |-> [name |-> <<"-", tok[q + 1]>>,
          value |-> IF q + 1 # FirstSingle(tok) THEN <<>>
                    ELSE IF q + 1 < Len(tok) THEN Suffix(tok, q + 2)
                    ELSE next]]

\* The matches of a parse of av from place k on in the claim's reading: each
\* dispatched option name with the value that goes with it.
RECURSIVE MatchesFrom(_, _, _)
MatchesFrom(av, k, honor) ==
  IF k > Len(av) THEN <<>>
  ELSE IF honor /\ av[k] = <<"-", "-">>
    THEN MatchesFrom(av, k + 1, FALSE)
  ELSE IF honor /\ Len(av[k]) >= 2 /\ av[k][1] = "-"
    THEN LET next == IF k < Len(av) THEN av[k + 1] ELSE <<>>
         IN  (IF av[k][2] = "-"
                THEN << [name |-> av[k], value |-> next] >>
                ELSE ClusterMatches(av[k], next))
               \o MatchesFrom(av, IF TakesNext(av[k]) THEN k + 2 ELSE k + 1, honor)
  ELSE MatchesFrom(av, k + 1, honor)

Matches == MatchesFrom(argv, 2, TRUE)

\* The places in Matches of the matches of the i-th declared option.
MatchesOf(i) == {q \in 1..Len(Matches) : i \in DeclaredBy(Matches[q].name)}

LastMatchOf(i) == CHOOSE q \in MatchesOf(i) : \A r \in MatchesOf(i) : r <= q

\* C22: at the end of a successful parse a Flag that was matched holds its
\* constant, however often it was matched, and a single-value option that was
\* matched holds the conversion of the value of its last match.
C22_Overwrite ==
  pc = "done" =>
    \A i \in 1..Len(options) :
      MatchesOf(i) # {} =>
        /\ options[i].kind = "Flag" => options[i].value = options[i].constant
        /\ options[i].kind = "SingleOption" =>
             options[i].value
               = Convert(options[i].converter, Matches[LastMatchOf(i)].value).value

\* -i7 -i 5 --integer 12 was parsed: the integer option was assigned three
\* times and holds 12.
C22_Witness ==
  /\ pc = "done"
  /\ argv = <<ProgramName, <<"-", "i", "7">>, <<"-", "i">>, <<"5">>,
              <<"-", "-", "i", "n", "t", "e", "g", "e", "r">>, <<"1", "2">> >>
  /\ options[OptInteger].writes = 3
  /\ options[OptInteger].value = 12

\* C23: the names of one option are interchangeable.  When a parse has ended,
\* the parse of the argument vector with a raw argument that is a name of an
\* option replaced by any name of the same option, short or long, ends with the
\* same error and the same value of every option.
C23_NamesInterchangeable ==
  Terminated =>
    \A k \in 2..Len(argv) :
      \A i \in DeclaredBy(argv[k]) :
        \A j \in 1..Len(ProgramDecls[i].names) :
          LET other == ProgramOutcome([argv EXCEPT ![k] = ProgramDecls[i].names[j]])
          IN  /\ other.err = err
              /\ other.options = Values(options)

\* --alias -i 5 was parsed, as -a -i 5 and --all -i 5 are: the flag holds its
\* constant and the integer option 5.
C23_Witness ==
  /\ pc = "done"
  /\ argv = <<ProgramName, <<"-", "-", "a", "l", "i", "a", "s">>, <<"-", "i">>,
              <<"5">> >>
  /\ options[OptAll].value = TRUE
  /\ options[OptInteger].value = 5
  /\ ProgramOutcome(<<ProgramName, <<"-", "a">>, <<"-", "i">>, <<"5">> >>).options
       = Values(options)

\* C24: after every declaration, successful or failed, each key of the
\* short-name map and of the long-name map refers to an option of the option
\* list, each name bound before is still bound to the same option, and each
\* option of the list is the target of at least one name.
C24_RegistryInvariant ==
  [][DeclarationStep =>
       /\ \A c \in DOMAIN short_options' : short_options'[c] \in 1..Len(options')
       /\ \A n \in DOMAIN long_options' : long_options'[n] \in 1..Len(options')
       /\ \A c \in DOMAIN short_options :
            c \in DOMAIN short_options' /\ short_options'[c] = short_options[c]
       /\ \A n \in DOMAIN long_options :
            n \in DOMAIN long_options' /\ long_options'[n] = long_options[n]
       /\ \A i \in 1..Len(options') :
            \/ \E c \in DOMAIN short_options' : short_options'[c] = i
            \/ \E n \in DOMAIN long_options' : long_options'[n] = i]_vars

\* The characters of the raw arguments after the program name.
RECURSIVE InputChars(_, _)
InputChars(av, k) ==
  IF k > Len(av) THEN 0 ELSE Len(av[k]) + InputChars(av, k + 1)

\* The reader r2 is strictly further in the input than the reader r1: at a
\* later raw argument, or further inside the same one.
Advanced(r1, r2) ==
  \/ r2.itr > r1.itr
  \/ r2.itr = r1.itr /\ r2.current = r1.current /\ r2.location > r1.location

\* next_flag never moves the reader back or past the end of the vector.
NextFlagAdvances ==
  [][pc = "loop" =>
       /\ type' # "end" => Advanced(reader, reader')
       /\ type' = "end" => reader' = reader
       /\ reader'.itr <= reader'.end
       /\ reader'.location <= Len(reader'.current)]_vars

\* The body of the dispatch loop is entered at most once per character of
\* the input plus once per raw argument.
LoopBound ==
  calls.loop <= InputChars(argv, 2) + (Len(argv) - 1)

\* C25: parse terminates on every argument vector: each next_flag call that
\* does not return end-of-stream moves the reader strictly forward, the
\* dispatch loop is entered at most once per character of the input plus once
\* per raw argument, and the parse ends, at the end of the stream or in an
\* error.
C25_ParseTerminates ==
  /\ NextFlagAdvances
  /\ []LoopBound
  /\ <>Terminated

\* A parse of three raw arguments, one a cluster, has gone four times through
\* the loop and has ended at the end of the stream.
C25_Witness ==
  /\ pc = "done"
  /\ Len(argv) = 4
  /\ calls.loop = 4
  /\ reader.itr = reader.end

\* The reader has read the raw arguments at the C indices 1..(itr - 1): they
\* are inside the vector when itr is at most argc, and with an empty vector
\* when nothing was read.
ReadsInside(r) == r.itr <= (IF argc = 0 THEN 1 ELSE argc)

\* C26: for every argc >= 0 the reader reads the raw arguments at the indices
\* 1..argc-1 only, one index after the other and none twice, it reads no
\* address behind the vector, and when no element follows the program name
\* the first next_flag call returns end-of-stream.
C26_ReadsInsideVector ==
  [][pc' # "start" =>
       /\ ~reader'.fault
       /\ reader'.itr \in {reader.itr, reader.itr + 1}
       /\ ReadsInside(reader')
       /\ (pc = "loop" /\ reader = NewArgReader(argc) /\ argc <= 1) =>
            type' = "end"]_vars

\* The argument vectors that hand the text t to the converter of -i: t attached
\* to -i when it has a character, and t as the raw argument after -i or
\* --integer when it does not start with the prefix character.
HandsToInteger(t) ==
  (IF t = <<>> THEN {} ELSE {<<ProgramName, <<"-", "i">> \o t>>})
    \cup (IF t # <<>> /\ t[1] = "-" THEN {}
          ELSE {<<ProgramName, <<"-", "i">>, t>>,
                <<ProgramName, <<"-", "-", "i", "n", "t", "e", "g", "e", "r">>, t>>})

\* C27: the int converter returns a value only for a text that is a complete
\* integer literal of the int range; for every other text, the empty text, a
\* sign alone and digits outside the range among them, the parse ends with
\* ConversionError and the option keeps its value.
C27_IntLiteralOnly ==
  Terminated =>
    \A t \in Texts \cup NoInt :
      argv \in HandsToInteger(t) =>
        IF \E i \in IntSamples : t = ToDecimal(i)
          THEN options[OptInteger].value = CHOOSE i \in IntSamples : t = ToDecimal(i)
          ELSE /\ err = "ConversionError"
               /\ options[OptInteger].value = ProgramRegistry.options[OptInteger].value
               /\ options[OptInteger].writes = 0

====
